---------------------------- MODULE Spec2Model ----------------------------
(***************************************************************************)
(* A model of src/src/lib.rs: HashTable<K, V>, a table of BUCKET_SIZE      *)
(* buckets, each a singly linked chain of (key, value) nodes with a len    *)
(* field.  Keys are Strings (as in tests::it_works), values are integers.  *)
(* A chain is the sequence of its nodes, head first: Box ownership makes   *)
(* the links a finite list without sharing.                                *)
(***************************************************************************)
EXTENDS Integers, Sequences, FiniteSets

\* ------------------------------------------------------------------ bounds
\* The keys in use are the first NumKeys entries of KeyList.
NumKeys == 4
\* The values in use are 1..MaxVal.
MaxVal == 2

\* --------------------------------------------------------------- constants
\* const BUCKET_SIZE: usize = 8;
BUCKET_SIZE == 8

\* ------------------------------------------------------------------- keys
\* Key strings: the four keys and the absent key of tests::it_works, and Cow,
\* a third key of Horse's and Elephant's bucket.
KeyList == <<"Horse", "Elephant", "Cow", "Monkey", "Lion", "Tiger">>

Keys == {KeyList[i] : i \in 1..NumKeys}

Vals == 1..MaxVal

\* str::as_bytes of each key (its UTF-8 bytes).
as_bytes(key) ==
    CASE key = "Horse"    -> <<72, 111, 114, 115, 101>>
      [] key = "Elephant" -> <<69, 108, 101, 112, 104, 97, 110, 116>>
      [] key = "Cow"      -> <<67, 111, 119>>
      [] key = "Monkey"   -> <<77, 111, 110, 107, 101, 121>>
      [] key = "Lion"     -> <<76, 105, 111, 110>>
      [] key = "Tiger"    -> <<84, 105, 103, 101, 114>>

\* <String as Hash>::hash: the bytes of the string, then the byte 0xff.
HashBytes(key) == as_bytes(key) \o <<255>>

\* ------------------------------------------------- 64-bit words (u64)
\* A u64 is four 16-bit limbs, least significant first.  The operations on
\* words are functions, so that each argument is evaluated once.
Limb == 65536

U64 == Seq(Nat)

\* 2^n
Pow2[n \in Nat] == IF n = 0 THEN 1 ELSE 2 * Pow2[n - 1]

\* Bitwise exclusive or of two naturals.
XorBits[a \in Nat, b \in Nat] ==
    IF a = 0 THEN b
    ELSE IF b = 0 THEN a
    ELSE ((a + b) % 2) + 2 * XorBits[a \div 2, b \div 2]

\* u64 ^ u64
Xor64[a \in U64, b \in U64] ==
    <<XorBits[a[1], b[1]], XorBits[a[2], b[2]],
      XorBits[a[3], b[3]], XorBits[a[4], b[4]]>>

\* u64::wrapping_add
Add64[a \in U64, b \in U64] ==
    LET c1 == (a[1] + b[1]) \div Limb
        c2 == (a[2] + b[2] + c1) \div Limb
        c3 == (a[3] + b[3] + c2) \div Limb
    IN  <<(a[1] + b[1]) % Limb, (a[2] + b[2] + c1) % Limb,
          (a[3] + b[3] + c2) % Limb, (a[4] + b[4] + c3) % Limb>>

\* u64::rotate_left(n), 0 <= n < 64
Rotl64[a \in U64, n \in 0..63] ==
    LET q == n \div 16
        s == n % 16
        at(i) == a[((i - 1 - q + 8) % 4) + 1]
        limb(i) == ((at(i) * Pow2[s]) % Limb) + (at(i + 3) \div Pow2[16 - s])
    IN  <<limb(1), limb(2), limb(3), limb(4)>>

\* u64 % n, for 0 < n <= 32768
Mod64[a \in U64, n \in 1..32768] ==
    ((((((a[4] % n) * Limb + a[3]) % n) * Limb + a[2]) % n) * Limb + a[1]) % n

\* The u64 whose little-endian bytes are the (at most 8) bytes bs, zero padded.
FromBytes[bs \in Seq(0..255)] ==
    LET byte(i) == IF i <= Len(bs) THEN bs[i] ELSE 0
    IN  <<byte(1) + 256 * byte(2), byte(3) + 256 * byte(4),
          byte(5) + 256 * byte(6), byte(7) + 256 * byte(8)>>

\* ------------------------------------------- DefaultHasher (SipHash 1-3)
\* The hasher's state is <<v0, v1, v2, v3>>.
SipState == Seq(U64)

\* One SipRound, in four steps.
\* v0 += v1; v2 += v3
SipStep1[v \in SipState] == <<Add64[v[1], v[2]], v[2], Add64[v[3], v[4]], v[4]>>

\* v1 = rotl(v1, 13) ^ v0; v0 = rotl(v0, 32); v3 = rotl(v3, 16) ^ v2
SipStep2[v \in SipState] ==
    <<Rotl64[v[1], 32], Xor64[Rotl64[v[2], 13], v[1]],
      v[3], Xor64[Rotl64[v[4], 16], v[3]]>>

\* v0 += v3; v2 += v1
SipStep3[v \in SipState] == <<Add64[v[1], v[4]], v[2], Add64[v[3], v[2]], v[4]>>

\* v3 = rotl(v3, 21) ^ v0; v1 = rotl(v1, 17) ^ v2; v2 = rotl(v2, 32)
SipStep4[v \in SipState] ==
    <<v[1], Xor64[Rotl64[v[2], 17], v[3]],
      Rotl64[v[3], 32], Xor64[Rotl64[v[4], 21], v[1]]>>

SipRound[v \in SipState] == SipStep4[SipStep3[SipStep2[SipStep1[v]]]]

\* v3 ^= m
SipXorV3[v \in SipState, m \in U64] == <<v[1], v[2], v[3], Xor64[v[4], m]>>

\* v0 ^= m
SipXorV0[v \in SipState, m \in U64] == <<Xor64[v[1], m], v[2], v[3], v[4]>>

\* Compression of one 64-bit message word m (c = 1 round).
SipCompress[v \in SipState, m \in U64] == SipXorV0[SipRound[SipXorV3[v, m]], m]

\* DefaultHasher::new(): SipHasher13 with the keys (0, 0).
SipInit == <<FromBytes[<<117, 101, 115, 112, 101, 109, 111, 115>>],
             FromBytes[<<109, 111, 100, 110, 97, 114, 111, 100>>],
             FromBytes[<<97, 114, 101, 110, 101, 103, 121, 108>>],
             FromBytes[<<115, 101, 116, 121, 98, 100, 101, 116>>]>>

\* Hasher::write of the bytes bs from offset i on: the whole 8-byte words.
SipWrite[v \in SipState, bs \in Seq(0..255), i \in Nat] ==
    IF i + 8 <= Len(bs) + 1
    THEN SipWrite[SipCompress[v, FromBytes[SubSeq(bs, i, i + 7)]], bs, i + 8]
    ELSE v

\* The last word: the remaining bytes, and the length in the top byte.
SipLast[bs \in Seq(0..255)] ==
    LET n    == Len(bs)
        tail == SubSeq(bs, n - (n % 8) + 1, n)
    IN  FromBytes[[i \in 1..8 |-> IF i <= Len(tail) THEN tail[i]
                                  ELSE IF i = 8 THEN n % 256 ELSE 0]]

\* v2 ^= 0xff
SipXorV2[v \in SipState] == <<v[1], v[2], Xor64[v[3], <<255, 0, 0, 0>>], v[4]>>

\* v0 ^ v1 ^ v2 ^ v3
SipFold[v \in SipState] == Xor64[Xor64[v[1], v[2]], Xor64[v[3], v[4]]]

\* Hasher::finish of the state after writing bs; d = 3 rounds.
SipFinish[bs \in Seq(0..255)] ==
    SipFold[SipRound[SipRound[SipRound[SipXorV2[
        SipCompress[SipWrite[SipInit, bs, 1], SipLast[bs]]]]]]]

\* DefaultHasher::new(); key.hash(&mut hasher); hasher.finish()
DefaultHash(key) == SipFinish[HashBytes(key)]

\* hasher.finish() of each key of KeyList, computed once.
HashOf ==
    <<DefaultHash(KeyList[1]), DefaultHash(KeyList[2]), DefaultHash(KeyList[3]),
      DefaultHash(KeyList[4]), DefaultHash(KeyList[5]), DefaultHash(KeyList[6])>>

\* The place of a key in KeyList.
KeyIndex(key) == CHOOSE i \in 1..Len(KeyList) : KeyList[i] = key

\* HashTable::hash with a modulus that is not the number of buckets.
hash_WrongModulus(key) == Mod64[HashOf[KeyIndex(key)], 2 * BUCKET_SIZE]

\* HashTable::hash: index = hasher.finish() % BUCKET_SIZE as u64, as usize.
hash(key) == Mod64[HashOf[KeyIndex(key)], BUCKET_SIZE]

\* -------------------------------------------------------------- Bucket
\* Option<&V>: None is <<>>, Some(v) is <<v>>.
None == <<>>

Some(v) == <<v>>

\* Node { key, value, next }: next is the rest of the sequence.
Node(key, value) == [key |-> key, value |-> value]

\* Bucket { head: None, len: 0 }
EmptyBucket == [head |-> <<>>, len |-> 0]

\* The loop of insert, remove and get: advance from node i until a node with
\* an equal key or the end of the chain; 0 stands for current = None.
RECURSIVE Scan(_, _, _)
Scan(chain, key, i) ==
    IF i > Len(chain) THEN 0
    ELSE IF chain[i].key = key THEN i
    ELSE Scan(chain, key, i + 1)

\* Bucket::insert without `node.value = value`: a key that is found keeps its
\* old value.
Bucket_insert_NoUpdate(b, key, value) ==
    LET current == Scan(b.head, key, 1)
    IN  IF current # 0
        THEN b
        ELSE [head |-> <<Node(key, value)>> \o b.head, len |-> b.len + 1]

\* Bucket::insert without the scan: every insert links a new head node.
Bucket_insert_AlwaysPrepend(b, key, value) ==
    [head |-> <<Node(key, value)>> \o b.head, len |-> b.len + 1]

\* Bucket::insert with `self.len += 1` moved out of the else branch.
Bucket_insert_IncAlways(b, key, value) ==
    LET current == Scan(b.head, key, 1)
    IN  IF current # 0
        THEN [b EXCEPT !.head[current].value = value, !.len = b.len + 1]
        ELSE [head |-> <<Node(key, value)>> \o b.head, len |-> b.len + 1]

\* Bucket::insert without `self.len += 1`.
Bucket_insert_NoInc(b, key, value) ==
    LET current == Scan(b.head, key, 1)
    IN  IF current # 0
        THEN [b EXCEPT !.head[current].value = value]
        ELSE [head |-> <<Node(key, value)>> \o b.head, len |-> b.len]

\* Bucket::insert that compares the key of the head node only.
Bucket_insert_HeadOnly(b, key, value) ==
    IF b.head # <<>> /\ b.head[1].key = key
    THEN [b EXCEPT !.head[1].value = value]
    ELSE [head |-> <<Node(key, value)>> \o b.head, len |-> b.len + 1]

\* Bucket::insert that, on a match, unlinks the node and links it in again
\* as the head.
Bucket_insert_MoveToFront(b, key, value) ==
    LET current == Scan(b.head, key, 1)
    IN  IF current # 0
        THEN [b EXCEPT !.head = <<Node(key, value)>>
                                \o SubSeq(b.head, 1, current - 1)
                                \o SubSeq(b.head, current + 1, Len(b.head))]
        ELSE [head |-> <<Node(key, value)>> \o b.head, len |-> b.len + 1]

\* Bucket::insert that links a new node at the end of the chain
\* (`*current = Some(Box::new(..))` at the None the scan stopped at).
Bucket_insert_Append(b, key, value) ==
    LET current == Scan(b.head, key, 1)
    IN  IF current # 0
        THEN [b EXCEPT !.head[current].value = value]
        ELSE [head |-> b.head \o <<Node(key, value)>>, len |-> b.len + 1]

\* Bucket::insert.  len is a usize; the model keeps it an integer, so that a
\* decrement below 0 shows as a negative len.
Bucket_insert(b, key, value) ==
    LET current == Scan(b.head, key, 1)
    IN  IF current # 0
        THEN [b EXCEPT !.head[current].value = value]
        ELSE [head |-> <<Node(key, value)>> \o b.head, len |-> b.len + 1]

\* Bucket::remove without `self.len -= 1`.
Bucket_remove_NoDec(b, key) ==
    LET current == Scan(b.head, key, 1)
    IN  IF current = 0
        THEN b
        ELSE [head |-> SubSeq(b.head, 1, current - 1)
                       \o SubSeq(b.head, current + 1, Len(b.head)),
              len  |-> b.len]

\* Bucket::remove with `self.len -= 1` also when no node matches.
Bucket_remove_DecAlways(b, key) ==
    LET current == Scan(b.head, key, 1)
    IN  IF current = 0
        THEN [b EXCEPT !.len = b.len - 1]
        ELSE [head |-> SubSeq(b.head, 1, current - 1)
                       \o SubSeq(b.head, current + 1, Len(b.head)),
              len  |-> b.len - 1]

\* Bucket::remove with `*current = None`: the nodes after the removed one go
\* with it.
Bucket_remove_DropRest(b, key) ==
    LET current == Scan(b.head, key, 1)
    IN  IF current = 0
        THEN b
        ELSE [head |-> SubSeq(b.head, 1, current - 1), len |-> b.len - 1]

\* Bucket::remove with `self.head = node.next.take()`: the chain restarts
\* after the removed node, and the nodes before it are lost.
Bucket_remove_DropFront(b, key) ==
    LET current == Scan(b.head, key, 1)
    IN  IF current = 0
        THEN b
        ELSE [head |-> SubSeq(b.head, current + 1, Len(b.head)),
              len  |-> b.len - 1]

\* Bucket::remove
Bucket_remove(b, key) ==
    LET current == Scan(b.head, key, 1)
    IN  IF current = 0
        THEN b
        ELSE [head |-> SubSeq(b.head, 1, current - 1)
                       \o SubSeq(b.head, current + 1, Len(b.head)),
              len  |-> b.len - 1]

\* Bucket::get without the key comparison: the value of the head node.
Bucket_get_NoCompare(b, key) ==
    IF b.head = <<>> THEN None ELSE Some(b.head[1].value)

\* Bucket::get
Bucket_get(b, key) ==
    LET current == Scan(b.head, key, 1)
    IN  IF current = 0 THEN None ELSE Some(b.head[current].value)

\* ----------------------------------------------------------- HashTable
\* HashTable::new with the loop `for i in 1..BUCKET_SIZE`.
HashTable_new_OffByOne == [i \in 1..(BUCKET_SIZE - 1) |-> EmptyBucket]

\* HashTable::new: buckets 0..BUCKET_SIZE-1 of the Vec are elements
\* 1..BUCKET_SIZE of the sequence.
HashTable_new == [i \in 1..BUCKET_SIZE |-> EmptyBucket]

\* self.buckets.iter().map(|bucket| bucket.len).sum(), over the first n buckets
RECURSIVE SumLen(_, _)
SumLen(t, n) == IF n = 0 THEN 0 ELSE SumLen(t, n - 1) + t[n].len

\* HashTable::len that counts the buckets that hold a node.
HashTable_len_CountBuckets(t) == Cardinality({i \in 1..Len(t) : t[i].len > 0})

\* HashTable::len
HashTable_len(t) == SumLen(t, Len(t))

\* HashTable::insert that does not use the index: always bucket 0.
HashTable_insert_Bucket0(t, key, value) ==
    [t EXCEPT ![1] = Bucket_insert(@, key, value)]

\* HashTable::insert with an index one too large (wrapping to 0).
HashTable_insert_NextBucket(t, key, value) ==
    [t EXCEPT ![((hash(key) + 1) % BUCKET_SIZE) + 1] = Bucket_insert(@, key, value)]

\* self.buckets[index].insert(key, value)
InsertAt(t, index, key, value) ==
    [t EXCEPT ![index + 1] = Bucket_insert(@, key, value)]

\* self.buckets[index].remove(key)
RemoveAt(t, index, key) == [t EXCEPT ![index + 1] = Bucket_remove(@, key)]

\* self.buckets[index].get(key)
GetAt(t, index, key) == Bucket_get(t[index + 1], key)

\* HashTable::insert: let index = Self::hash(&key); then the bucket's insert
HashTable_insert(t, key, value) == InsertAt(t, hash(key), key, value)

\* HashTable::remove
HashTable_remove(t, key) == RemoveAt(t, hash(key), key)

\* HashTable::get
HashTable_get(t, key) == GetAt(t, hash(key), key)

\* ---------------------------------------------------------------- state
\* buckets: the table (HashTable.buckets).
\* op, ret: the last call and what it returned; prev: the table before it.
\* before: the call before the last, if it was an insert (SpecSeq).
\* inserted, removed: entries created and entries removed so far (SpecCount).
\* model, ever: the finite map the table stands for, and the keys that were
\* ever inserted (SpecMap).
\* twin, hash2: a second table that gets the same calls, and the bucket index
\* its hash function gives each key of KeyList (SpecHash).
\* scan: the loop of the bucket operation that is running or ran last, node
\* by node (SpecScan).
VARIABLES buckets, prev, op, ret, before, inserted, removed, model, ever,
          twin, hash2, scan

vars == <<buckets, prev, op, ret, before, inserted, removed, model, ever,
          twin, hash2, scan>>

aux == <<before, inserted, removed, model, ever, twin, hash2, scan>>

Call(name, key, value) == [name |-> name, key |-> key, value |-> value]

\* The call before the last was not an insert.
NoInsert == [key |-> "", value |-> 0, created |-> FALSE, len |-> 0]

\* No bucket operation has run. running: the operation named by op is in its
\* loop; current: the place of the link `current` refers to (1 is self.head,
\* a place after the last node is a None link); visited: the number of nodes
\* whose key was compared.
NoScan == [running |-> FALSE, current |-> 0, visited |-> 0]

\* The bucket index that HashTable::hash gives each key of KeyList.
CodeHash == [i \in 1..Len(KeyList) |-> hash(KeyList[i])]

\* let mut hashtable = HashTable::new();
Init ==
    /\ hash2 = CodeHash
    /\ twin = HashTable_new
    /\ buckets = HashTable_new
    /\ prev = HashTable_new
    /\ op = Call("new", "", 0)
    /\ ret = <<>>
    /\ before = NoInsert
    /\ inserted = 0
    /\ removed = 0
    /\ model = <<>>
    /\ ever = {}
    /\ scan = NoScan

\* hashtable.insert(key, value)
Insert(key, value) ==
    /\ buckets' = HashTable_insert(buckets, key, value)
    /\ prev' = buckets
    /\ op' = Call("insert", key, value)
    /\ ret' = <<>>

\* hashtable.remove(&key)
Remove(key) ==
    /\ buckets' = HashTable_remove(buckets, key)
    /\ prev' = buckets
    /\ op' = Call("remove", key, 0)
    /\ ret' = <<>>

\* A get that moves the node it finds to the head of its chain.
Get_MoveToFront(key) ==
    /\ ret' = HashTable_get(buckets, key)
    /\ buckets' = IF HashTable_get(buckets, key) = None
                  THEN buckets
                  ELSE HashTable_insert(HashTable_remove(buckets, key), key,
                                        HashTable_get(buckets, key)[1])
    /\ prev' = buckets
    /\ op' = Call("get", key, 0)

\* hashtable.get(&key): &self, the table is not changed
Get(key) ==
    /\ ret' = HashTable_get(buckets, key)
    /\ buckets' = buckets
    /\ prev' = buckets
    /\ op' = Call("get", key, 0)

\* hashtable.len(): &self, the table is not changed
LenCall ==
    /\ ret' = <<HashTable_len(buckets)>>
    /\ buckets' = buckets
    /\ prev' = buckets
    /\ op' = Call("len", "", 0)

\* Any sequence of calls of the public API on one table.
Next ==
    \/ \E key \in Keys, value \in Vals : Insert(key, value) /\ UNCHANGED aux
    \/ \E key \in Keys : Remove(key) /\ UNCHANGED aux
    \/ \E key \in Keys : Get(key) /\ UNCHANGED aux
    \/ LenCall /\ UNCHANGED aux

Spec == Init /\ [][Next]_vars

\* ---------------------------------------------- two calls in a row
\* The last call, if it was an insert: its key and value, whether the key
\* was absent (so that the call created an entry), and len() before the call.
LastInsert ==
    IF op.name = "insert"
    THEN [key |-> op.key, value |-> op.value,
          created |-> HashTable_get(prev, op.key) = None,
          len |-> HashTable_len(prev)]
    ELSE NoInsert

NextSeq ==
    \/ \E key \in Keys, value \in Vals :
          Insert(key, value) /\ before' = LastInsert /\ UNCHANGED <<inserted, removed, model, ever, twin, hash2, scan>>
    \/ \E key \in Keys :
          Remove(key) /\ before' = LastInsert /\ UNCHANGED <<inserted, removed, model, ever, twin, hash2, scan>>
    \/ \E key \in Keys :
          Get(key) /\ before' = LastInsert /\ UNCHANGED <<inserted, removed, model, ever, twin, hash2, scan>>
    \/ LenCall /\ before' = LastInsert /\ UNCHANGED <<inserted, removed, model, ever, twin, hash2, scan>>

SpecSeq == Init /\ [][NextSeq]_vars

\* ------------------------------------------ counting entries in and out
\* At most MaxCount entries are created in a run.
MaxCount == 5

\* An insert creates an entry when the key is not present.
InsertCount(key, value) ==
    /\ HashTable_get(buckets, key) = None => inserted < MaxCount
    /\ Insert(key, value)
    /\ inserted' = IF HashTable_get(buckets, key) = None
                   THEN inserted + 1 ELSE inserted
    /\ UNCHANGED <<before, removed, model, ever, twin, hash2, scan>>

\* A remove removes an entry when the key is present.
RemoveCount(key) ==
    /\ Remove(key)
    /\ removed' = IF HashTable_get(buckets, key) # None
                  THEN removed + 1 ELSE removed
    /\ UNCHANGED <<before, inserted, model, ever, twin, hash2, scan>>

NextCount ==
    \/ \E key \in Keys, value \in Vals : InsertCount(key, value)
    \/ \E key \in Keys : RemoveCount(key)
    \/ \E key \in Keys : Get(key) /\ UNCHANGED aux
    \/ LenCall /\ UNCHANGED aux

SpecCount == Init /\ [][NextCount]_vars

\* ------------------------------------------ the table as a finite map
\* M[K] := V
MapInsert(m, key, value) ==
    [k \in (DOMAIN m) \cup {key} |-> IF k = key THEN value ELSE m[k]]

\* K leaves the domain of M.
MapRemove(m, key) == [k \in (DOMAIN m) \ {key} |-> m[k]]

InsertMap(key, value) ==
    /\ Insert(key, value)
    /\ model' = MapInsert(model, key, value)
    /\ ever' = ever \cup {key}
    /\ UNCHANGED <<before, inserted, removed, twin, hash2, scan>>

RemoveMap(key) ==
    /\ Remove(key)
    /\ model' = MapRemove(model, key)
    /\ UNCHANGED <<before, inserted, removed, ever, twin, hash2, scan>>

NextMap ==
    \/ \E key \in Keys, value \in Vals : InsertMap(key, value)
    \/ \E key \in Keys : RemoveMap(key)
    \/ \E key \in Keys : Get(key) /\ UNCHANGED aux
    \/ LenCall /\ UNCHANGED aux

SpecMap == Init /\ [][NextMap]_vars

\* ------------------------------------- two tables, two hash functions
\* Other deterministic hash functions into [0, BUCKET_SIZE), each given by the
\* index of every key of KeyList: one that gives every key its own bucket,
\* one that pairs the keys otherwise than HashTable::hash does, and one that
\* puts Horse, Elephant and Monkey in one bucket and the others in another.
AltHashes == {<<0, 1, 2, 3, 4, 5>>, <<0, 3, 3, 0, 5, 5>>, <<6, 6, 2, 6, 2, 2>>}

\* The index of the key in the second table.
Hash2(key) == hash2[KeyIndex(key)]

\* Two tables are created; the second one hashes with one of AltHashes.
InitHash ==
    /\ hash2 \in AltHashes
    /\ twin = HashTable_new
    /\ buckets = HashTable_new
    /\ prev = HashTable_new
    /\ op = Call("new", "", 0)
    /\ ret = <<>>
    /\ before = NoInsert
    /\ inserted = 0
    /\ removed = 0
    /\ model = <<>>
    /\ ever = {}
    /\ scan = NoScan

\* Both tables get insert(key, value).
InsertHash(key, value) ==
    /\ Insert(key, value)
    /\ twin' = InsertAt(twin, Hash2(key), key, value)
    /\ UNCHANGED <<before, inserted, removed, model, ever, hash2, scan>>

\* Both tables get remove(&key).
RemoveHash(key) ==
    /\ Remove(key)
    /\ twin' = RemoveAt(twin, Hash2(key), key)
    /\ UNCHANGED <<before, inserted, removed, model, ever, hash2, scan>>

NextHash ==
    \/ \E key \in Keys, value \in Vals : InsertHash(key, value)
    \/ \E key \in Keys : RemoveHash(key)
    \/ \E key \in Keys : Get(key) /\ UNCHANGED aux
    \/ LenCall /\ UNCHANGED aux

SpecHash == InitHash /\ [][NextHash]_vars

\* --------------------------------------------- the scans, node by node
\* `current = &mut node.next`, with no progress: current stays where it is.
NextLink_Stay(current) == current

\* current = &mut node.next (insert, remove), current = &node.next (get)
NextLink(current) == current + 1

\* The chain that the running operation scans.
ScanChain == buckets[hash(op.key) + 1].head

\* `current` is Some(node) with node.key == key.
AtMatch ==
    /\ scan.current <= Len(ScanChain)
    /\ ScanChain[scan.current].key = op.key

\* `current` is None.
AtEnd == scan.current > Len(ScanChain)

\* The call enters the bucket operation: let mut current = &mut self.head;
Begin(fn, key, value) ==
    /\ ~scan.running
    /\ scan' = [running |-> TRUE, current |-> 1, visited |-> 0]
    /\ prev' = buckets
    /\ op' = Call(fn, key, value)
    /\ ret' = <<>>
    /\ UNCHANGED <<buckets, before, inserted, removed, model, ever, twin,
                   hash2>>

\* Some(node) with another key: the loop moves to the next link.
Advance ==
    /\ scan.running
    /\ ~AtEnd
    /\ ~AtMatch
    /\ scan' = [scan EXCEPT !.current = NextLink(scan.current),
                            !.visited = scan.visited + 1]
    /\ UNCHANGED <<buckets, prev, op, ret, before, inserted, removed, model,
                   ever, twin, hash2>>

\* What Bucket::insert does with `current` after its loop.
AfterInsert(b, current, key, value) ==
    IF current <= Len(b.head)
    THEN [b EXCEPT !.head[current].value = value]
    ELSE [head |-> <<Node(key, value)>> \o b.head, len |-> b.len + 1]

\* What Bucket::remove does when its loop is at a match or at None.
AfterRemove(b, current) ==
    IF current <= Len(b.head)
    THEN [head |-> SubSeq(b.head, 1, current - 1)
                   \o SubSeq(b.head, current + 1, Len(b.head)),
          len  |-> b.len - 1]
    ELSE b

\* What Bucket::get returns when its loop is at a match or at None.
AfterGet(b, current) ==
    IF current <= Len(b.head) THEN Some(b.head[current].value) ELSE None

\* The loop ends at a match or at None, and the operation completes.
Finish ==
    /\ scan.running
    /\ AtEnd \/ AtMatch
    /\ scan' = [scan EXCEPT !.running = FALSE,
                            !.visited = IF AtMatch THEN scan.visited + 1
                                        ELSE scan.visited]
    /\ buckets' =
          [buckets EXCEPT ![hash(op.key) + 1] =
              IF op.name = "insert"
              THEN AfterInsert(@, scan.current, op.key, op.value)
              ELSE IF op.name = "remove" THEN AfterRemove(@, scan.current)
              ELSE @]
    /\ ret' = IF op.name = "get"
              THEN AfterGet(buckets[hash(op.key) + 1], scan.current)
              ELSE <<>>
    /\ UNCHANGED <<prev, op, before, inserted, removed, model, ever, twin,
                   hash2>>

NextScan ==
    \/ \E key \in Keys, value \in Vals : Begin("insert", key, value)
    \/ \E key \in Keys : Begin("remove", key, 0)
    \/ \E key \in Keys : Begin("get", key, 0)
    \/ Advance
    \/ Finish

SpecScan == Init /\ [][NextScan]_vars

\* ------------------------------------------------------------ properties
\* The key is present in table t.
Present(t, key) == HashTable_get(t, key) # None

\* The chain of the key's bucket in table t.
Chain(t, key) == t[hash(key) + 1].head

\* The place of the key's node in its chain in table t, 0 if there is none.
Position(t, key) == Scan(Chain(t, key), key, 1)

\* Two distinct keys of the same bucket.
Collide(k1, k2) == k1 # k2 /\ hash(k1) = hash(k2)

\* The number of nodes reachable from all bucket heads of table t.
NodeCount(t) ==
    Cardinality(UNION {{<<i, j>> : j \in 1..Len(t[i].head)} : i \in 1..Len(t)})

\* C1 (round trip): a get(K) that directly follows an insert(K, V) returns
\* Some(V), whether the insert created the entry or updated it.
C1_RoundTrip ==
    (op.name = "get" /\ before.key = op.key) => ret = Some(before.value)

\* An insert updated a key that sits behind another node, and the get that
\* followed returned the new value.
C1_Witness ==
    /\ op.name = "get"
    /\ before.key = op.key
    /\ ~before.created
    /\ Position(buckets, op.key) >= 2
    /\ ret = Some(before.value)

\* C2 (removal correctness): after remove(K) of a key that was present, get(K)
\* is None and len() is 1 smaller than before the call.
C2_RemovePresent ==
    (op.name = "remove" /\ Present(prev, op.key)) =>
        /\ HashTable_get(buckets, op.key) = None
        /\ HashTable_len(buckets) = HashTable_len(prev) - 1

\* The middle node of a chain of three was removed.
C2_Witness ==
    /\ op.name = "remove"
    /\ Len(Chain(prev, op.key)) = 3
    /\ Position(prev, op.key) = 2
    /\ HashTable_get(buckets, op.key) = None
    /\ HashTable_len(buckets) = HashTable_len(prev) - 1

\* C3 (update, not duplicate): insert(K, V1) of an absent key followed by
\* insert(K, V2) with V2 # V1 leaves len() 1 larger than before the first
\* insert, and get(K) is then Some(V2).
C3_UpdateNotDuplicate ==
    (/\ before.created
     /\ op.name = "insert"
     /\ op.key = before.key
     /\ op.value # before.value) =>
        /\ HashTable_len(buckets) = before.len + 1
        /\ HashTable_get(buckets, op.key) = Some(op.value)

\* The two inserts happened on a table that already held two entries.
C3_Witness ==
    /\ before.created
    /\ op.name = "insert"
    /\ op.key = before.key
    /\ op.value # before.value
    /\ before.len = 2
    /\ HashTable_len(buckets) = 3
    /\ HashTable_get(buckets, op.key) = Some(op.value)

\* C4 (remove of an absent key): the whole table is as before the call: len(),
\* every bucket's chain and len field, and get(K') for every key K'.
C4_RemoveAbsentNoOp ==
    (op.name = "remove" /\ ~Present(prev, op.key)) =>
        /\ HashTable_len(buckets) = HashTable_len(prev)
        /\ \A i \in 1..BUCKET_SIZE :
              /\ buckets[i].head = prev[i].head
              /\ buckets[i].len = prev[i].len
        /\ \A k \in Keys : HashTable_get(buckets, k) = HashTable_get(prev, k)
        /\ buckets = prev

\* The absent key's bucket held two other keys, which the scan passed.
C4_Witness ==
    /\ op.name = "remove"
    /\ ~Present(prev, op.key)
    /\ Len(Chain(prev, op.key)) = 2
    /\ buckets = prev

\* C5 (sum invariant): len() is the number of entries created (inserts of an
\* absent key) minus the number of entries removed (removes of a present key).
C5_SumInvariant == HashTable_len(buckets) = inserted - removed

\* Four entries were created and two of them removed.
C5_Witness ==
    /\ inserted = 4
    /\ removed = 2
    /\ op.name = "remove"
    /\ HashTable_len(buckets) = 2

\* C6 (length and node count): each bucket's len is the number of nodes of its
\* chain (0 exactly when head is None, and never below 0: a remove that finds
\* a node finds len >= 1), and len() is the sum of the 8 len fields, which is
\* the number of nodes reachable from the bucket heads.
C6_LenIsNodeCount ==
    /\ \A i \in 1..Len(buckets) :
          /\ buckets[i].len = Len(buckets[i].head)
          /\ buckets[i].len >= 0
          /\ buckets[i].len = 0 <=> buckets[i].head = <<>>
    /\ (op.name = "remove" /\ Present(prev, op.key)) =>
          prev[hash(op.key) + 1].len >= 1
    /\ HashTable_len(buckets) =
          buckets[1].len + buckets[2].len + buckets[3].len + buckets[4].len
          + buckets[5].len + buckets[6].len + buckets[7].len + buckets[8].len
    /\ HashTable_len(buckets) = NodeCount(buckets)

\* Two buckets hold nodes, one of them three, after a remove.
C6_Witness ==
    /\ op.name = "remove"
    /\ Present(prev, op.key)
    /\ \E i, j \in 1..BUCKET_SIZE :
          i # j /\ buckets[i].len = 2 /\ buckets[j].len = 1
    /\ HashTable_len(buckets) = 3

\* C7 (collisions): an insert(K1, V) or remove(K1) makes get(K1) Some(V) or
\* None, and leaves get(K2) as it was for every other key K2 of the same
\* bucket, wherever the two nodes sit in the chain.
C7_Collision ==
    op.name \in {"insert", "remove"} =>
        /\ op.name = "insert" =>
              HashTable_get(buckets, op.key) = Some(op.value)
        /\ op.name = "remove" => HashTable_get(buckets, op.key) = None
        /\ \A k2 \in Keys :
              Collide(op.key, k2) =>
                  HashTable_get(buckets, k2) = HashTable_get(prev, k2)

\* The removed key sat nearer the head than a key of the same bucket, which is
\* still there with its value.
C7_Witness ==
    /\ op.name = "remove"
    /\ \E k2 \in Keys :
          /\ Collide(op.key, k2)
          /\ Position(prev, op.key) >= 1
          /\ Position(prev, k2) > Position(prev, op.key)
          /\ Present(buckets, k2)
          /\ HashTable_get(buckets, k2) = HashTable_get(prev, k2)
          /\ ~Present(buckets, op.key)

\* C8 (key uniqueness): no key occurs in two nodes of the same chain.
C8_KeysDistinct ==
    \A i \in 1..Len(buckets) :
        \A p, q \in 1..Len(buckets[i].head) :
            p # q => buckets[i].head[p].key # buckets[i].head[q].key

\* A key that sits last in a chain of three was inserted again.
C8_Witness ==
    /\ op.name = "insert"
    /\ Position(prev, op.key) = 3
    /\ Len(Chain(buckets, op.key)) = 3

\* C9 (bucket count and index safety): the table has BUCKET_SIZE = 8 buckets,
\* and hash gives every key an index in [0, 8), a bucket of the table.
C9_IndexInBounds ==
    /\ BUCKET_SIZE = 8
    /\ Len(buckets) = BUCKET_SIZE
    /\ DOMAIN buckets = 1..BUCKET_SIZE
    /\ \A i \in 1..Len(KeyList) :
          /\ hash(KeyList[i]) \in 0..(BUCKET_SIZE - 1)
          /\ hash(KeyList[i]) + 1 \in DOMAIN buckets

\* A key of the last bucket, index 7, was inserted.
C9_Witness ==
    /\ op.name = "insert"
    /\ hash(op.key) = BUCKET_SIZE - 1
    /\ buckets[BUCKET_SIZE].len >= 1
    /\ Len(buckets) = BUCKET_SIZE

\* C10 (get and len are read-only): a get or len call leaves every chain and
\* len field as it was, so the same call again returns the same result.
C10_ReadOnly ==
    /\ op.name \in {"get", "len"} =>
          /\ buckets = prev
          /\ \A i \in 1..BUCKET_SIZE :
                /\ buckets[i].head = prev[i].head
                /\ buckets[i].len = prev[i].len
    /\ op.name = "get" => HashTable_get(buckets, op.key) = ret
    /\ op.name = "len" => <<HashTable_len(buckets)>> = ret

\* A get found its key in the last node of a chain of three.
C10_Witness ==
    /\ op.name = "get"
    /\ ret # None
    /\ Position(buckets, op.key) = 3
    /\ buckets = prev

\* The keys of a chain, head first.
KeysOf(chain) == [j \in 1..Len(chain) |-> chain[j].key]

\* The nodes of table t that hold the key, as <<bucket, place>> pairs.
NodesOf(t, key) ==
    UNION {{<<i, j>> : j \in {n \in 1..Len(t[i].head) : t[i].head[n].key = key}} :
           i \in 1..Len(t)}

\* C11 (initial state): right after new() all 8 buckets are empty (head None,
\* len 0), len() is 0 and get(K) is None for every key; and in every state
\* get(K) is None for every key that was never inserted (as "Tiger").
C11_InitialAndNeverInserted ==
    /\ op.name = "new" =>
          /\ Len(buckets) = BUCKET_SIZE
          /\ \A i \in 1..BUCKET_SIZE :
                buckets[i].head = <<>> /\ buckets[i].len = 0
          /\ HashTable_len(buckets) = 0
          /\ \A i \in 1..Len(KeyList) :
                HashTable_get(buckets, KeyList[i]) = None
    /\ \A i \in 1..Len(KeyList) :
          KeyList[i] \notin ever => HashTable_get(buckets, KeyList[i]) = None
    /\ HashTable_get(buckets, "Tiger") = None

\* A get of a key that was never inserted scanned a chain of two other keys
\* and returned None.
C11_Witness ==
    /\ op.name = "get"
    /\ op.key \notin ever
    /\ Len(Chain(buckets, op.key)) = 2
    /\ ret = None

\* C13 (placement): every node of bucket i holds a key with hash(key) = i, so
\* each key is in at most one node of the table, and a key is in some node
\* exactly when the scan of bucket hash(key) finds it.
C13_Placement ==
    /\ \A i \in 1..Len(buckets) :
          \A j \in 1..Len(buckets[i].head) :
              hash(buckets[i].head[j].key) = i - 1
    /\ \A k \in Keys :
          /\ Cardinality(NodesOf(buckets, k)) <= 1
          /\ NodesOf(buckets, k) # {} <=> Position(buckets, k) # 0
          /\ NodesOf(buckets, k) # {} <=> Present(buckets, k)

\* Buckets 7 and 4 both hold nodes, bucket 7 three of them.
C13_Witness ==
    /\ Len(buckets[8].head) = 3
    /\ Len(buckets[5].head) = 1
    /\ op.name = "insert"
    /\ NodesOf(buckets, op.key) = {<<hash(op.key) + 1, 1>>}

\* C14 (update in place): an insert(K, V) of a present key changes the value
\* of K's node to V and nothing else: the keys of the chain and their order,
\* the other nodes' values, the bucket's len, the other buckets and len().
C14_UpdateInPlace ==
    (op.name = "insert" /\ Present(prev, op.key)) =>
        LET i   == hash(op.key) + 1
            p   == Position(prev, op.key)
            old == prev[i].head
            new == buckets[i].head
        IN  /\ KeysOf(new) = KeysOf(old)
            /\ Position(buckets, op.key) = p
            /\ new[p].value = op.value
            /\ \A j \in 1..Len(old) : j # p => new[j] = old[j]
            /\ buckets[i].len = prev[i].len
            /\ \A n \in 1..BUCKET_SIZE : n # i => buckets[n] = prev[n]
            /\ HashTable_len(buckets) = HashTable_len(prev)

\* The middle node of a chain of three got another value.
C14_Witness ==
    /\ op.name = "insert"
    /\ Len(Chain(prev, op.key)) = 3
    /\ Position(prev, op.key) = 2
    /\ Chain(prev, op.key)[2].value # op.value
    /\ Chain(buckets, op.key)[2].value = op.value
    /\ KeysOf(Chain(buckets, op.key)) = KeysOf(Chain(prev, op.key))

\* C15 (prepend on a new key): an insert(K, V) of an absent key makes the
\* chain the node (K, V) followed by the chain as it was, and the bucket's len
\* 1 larger; so of two keys of one bucket created by two calls in a row, the
\* later one is the head and the earlier one is next.
C15_PrependNewKey ==
    (op.name = "insert" /\ ~Present(prev, op.key)) =>
        LET i == hash(op.key) + 1
        IN  /\ buckets[i].head = <<Node(op.key, op.value)>> \o prev[i].head
            /\ buckets[i].head[1] = Node(op.key, op.value)
            /\ \A j \in 1..Len(prev[i].head) :
                  buckets[i].head[j + 1] = prev[i].head[j]
            /\ buckets[i].len = prev[i].len + 1
            /\ (before.created /\ hash(before.key) = hash(op.key)) =>
                  /\ buckets[i].head[1].key = op.key
                  /\ buckets[i].head[2].key = before.key

\* Three keys of one bucket, the last two created by two calls in a row.
C15_Witness ==
    /\ op.name = "insert"
    /\ ~Present(prev, op.key)
    /\ before.created
    /\ hash(before.key) = hash(op.key)
    /\ Len(Chain(buckets, op.key)) = 3
    /\ KeysOf(Chain(buckets, op.key))[1] = op.key
    /\ KeysOf(Chain(buckets, op.key))[2] = before.key

\* C16 (unlink by splicing): a remove(K) of a present key leaves the chain as
\* it was with K's node deleted: the nodes before it and the nodes after it
\* stay, in their order, with their keys and values; the bucket's len is 1
\* smaller.
C16_UnlinkBySplicing ==
    (op.name = "remove" /\ Present(prev, op.key)) =>
        LET i   == hash(op.key) + 1
            p   == Position(prev, op.key)
            old == prev[i].head
            new == buckets[i].head
        IN  /\ Len(new) = Len(old) - 1
            /\ \A j \in 1..Len(new) :
                  new[j] = IF j < p THEN old[j] ELSE old[j + 1]
            /\ buckets[i].len = prev[i].len - 1

\* The middle node of a chain of three was removed: one node before it and
\* one after it are still there.
C16_Witness ==
    /\ op.name = "remove"
    /\ Len(Chain(prev, op.key)) = 3
    /\ Position(prev, op.key) = 2
    /\ Chain(buckets, op.key) = <<Chain(prev, op.key)[1], Chain(prev, op.key)[3]>>

\* C17 (bucket isolation): an insert(K, V) or remove(K) leaves the chain and
\* len of every bucket but hash(K) as they were, and get(K') as it was for
\* every key K' # K.
C17_BucketIsolation ==
    op.name \in {"insert", "remove"} =>
        /\ \A n \in 1..BUCKET_SIZE :
              n # hash(op.key) + 1 =>
                  /\ buckets[n].head = prev[n].head
                  /\ buckets[n].len = prev[n].len
        /\ \A k \in Keys :
              k # op.key => HashTable_get(buckets, k) = HashTable_get(prev, k)

\* A key was inserted into bucket 4 while bucket 7 held three nodes.
C17_Witness ==
    /\ op.name = "insert"
    /\ hash(op.key) = 4
    /\ buckets[5] # prev[5]
    /\ Len(prev[8].head) = 3
    /\ buckets[8] = prev[8]

\* C19 (refinement of a finite map): with M run beside the table (insert sets
\* M[K] := V, remove takes K out of M's domain), get(K) is Some(M[K]) for K in
\* the domain of M and None otherwise, and len() is the size of the domain.
C19_RefinesMap ==
    /\ \A k \in Keys :
          HashTable_get(buckets, k) =
              IF k \in DOMAIN model THEN Some(model[k]) ELSE None
    /\ HashTable_len(buckets) = Cardinality(DOMAIN model)
    /\ op.name = "get" =>
          ret = IF op.key \in DOMAIN model THEN Some(model[op.key]) ELSE None
    /\ op.name = "len" => ret = <<Cardinality(DOMAIN model)>>

\* After inserts, an update and a remove, M holds three keys, two of them in
\* one bucket, and a get returned the value M has for its key.
C19_Witness ==
    /\ op.name = "get"
    /\ Cardinality(DOMAIN model) = 3
    /\ ever # DOMAIN model
    /\ op.key \in DOMAIN model
    /\ Position(buckets, op.key) = 2
    /\ ret = Some(model[op.key])

\* C12 (hash independence): a table that hashes with HashTable::hash and a
\* table that hashes with another function, given the same calls from new(),
\* return the same get(K) for every key and the same len() after every call.
\* (Each function agrees with the first table, so any two of them agree.)
C12_HashIndependence ==
    /\ \A k \in Keys :
          GetAt(twin, Hash2(k), k) = HashTable_get(buckets, k)
    /\ HashTable_len(twin) = HashTable_len(buckets)
    /\ op.name = "get" => ret = GetAt(twin, Hash2(op.key), op.key)
    /\ op.name = "len" => ret = <<HashTable_len(twin)>>

\* Horse and Elephant share a chain in the first table and sit in two buckets
\* of the second, which holds Horse and Monkey in one chain; a key was removed.
C12_Witness ==
    /\ op.name = "remove"
    /\ Present(prev, op.key)
    /\ Present(buckets, "Horse")
    /\ Present(buckets, "Elephant")
    /\ Present(buckets, "Monkey")
    /\ Hash2("Horse") # Hash2("Elephant")
    /\ Hash2("Horse") = Hash2("Monkey")
    /\ Len(twin[Hash2("Horse") + 1].head) = 2
    /\ HashTable_len(twin) = 3

\* C18 (termination of the scans): while an insert, remove or get runs, its
\* loop has compared one node per step, none of them a match, at most as many
\* as the chain holds (the bucket's len), and it can take its next step; it
\* ends at the first node with the key or at the end of the chain, and has
\* then done what the operation does as a whole.
C18_ScanTerminates ==
    /\ scan.running =>
          /\ scan.current \in 1..(Len(ScanChain) + 1)
          /\ scan.visited = scan.current - 1
          /\ scan.visited <= buckets[hash(op.key) + 1].len
          /\ \A j \in 1..(scan.current - 1) : ScanChain[j].key # op.key
          /\ (ENABLED Advance) \/ (ENABLED Finish)
    /\ (~scan.running /\ op.name # "new") =>
          /\ scan.current = IF Position(prev, op.key) # 0
                            THEN Position(prev, op.key)
                            ELSE Len(Chain(prev, op.key)) + 1
          /\ scan.visited = IF Position(prev, op.key) # 0
                            THEN Position(prev, op.key)
                            ELSE Len(Chain(prev, op.key))
          /\ scan.visited <= prev[hash(op.key) + 1].len
          /\ op.name = "insert" =>
                buckets = HashTable_insert(prev, op.key, op.value)
          /\ op.name = "remove" => buckets = HashTable_remove(prev, op.key)
          /\ op.name = "get" =>
                buckets = prev /\ ret = HashTable_get(prev, op.key)

\* A remove has passed two nodes of a chain of three and is at the last one,
\* which holds its key.
C18_Witness ==
    /\ scan.running
    /\ op.name = "remove"
    /\ Len(ScanChain) = 3
    /\ scan.current = 3
    /\ scan.visited = 2
    /\ AtMatch

===========================================================================
